---- MODULE Spec2Model ----
(***************************************************************************)
(* Model of scipy/linalg/basic.py: the dispatch layer that validates its   *)
(* inputs, decides overwrite permissions, calls the LAPACK kernels and     *)
(* turns their status codes into results or exceptions.                    *)
(*                                                                         *)
(* One behaviour is one call of one public function.  The state holds the  *)
(* call's arguments, the ordered trace of what the call did (validations,  *)
(* kernel calls, the Levinson recursion) and its outcome.  The layer keeps *)
(* no state between calls, so a call always starts from Init.              *)
(***************************************************************************)
EXTENDS Integers, Sequences, FiniteSets, TLC

VARIABLES pc, op, args, trace, out

vars == <<pc, op, args, trace, out>>

(***************************************************************************)
(* Bounds of the model.                                                    *)
(***************************************************************************)
\* Array dimensions range over 1..MaxN.
MaxN == 2
\* Right-hand sides have 1..MaxRhs columns.
MaxRhs == 2
\* Kernel status codes range over -MaxInfo..MaxInfo.
MaxInfo == 2
\* Sub- and super-diagonal counts of a band matrix range over 0..MaxBand.
MaxBand == 1

Dims == 1..MaxN
InfoSet == (0 - MaxInfo)..MaxInfo

(***************************************************************************)
(* Array elements: complex numbers with integer parts, or a non-finite     *)
(* value (NaN / Inf).                                                      *)
(***************************************************************************)
Cx(re, im) == [re |-> re, im |-> im, nan |-> FALSE]
NaN == [re |-> 0, im |-> 0, nan |-> TRUE]
Zero == Cx(0, 0)
One == Cx(1, 0)

conj(e) == IF e.nan THEN e ELSE Cx(e.re, 0 - e.im)
real(e) == IF e.nan THEN e ELSE Cx(e.re, 0)
abs2(e) == e.re * e.re + e.im * e.im

(***************************************************************************)
(* Arrays.  data[i][j] is a sequence of rows; a 1-D array of length n is   *)
(* held as n rows of one element and told apart by its shape.  mem names   *)
(* the memory block the array reads and writes: the name of a caller's     *)
(* argument, or "fresh" for memory allocated during the call.  from names  *)
(* the caller's argument (or the kernel) the contents derive from.  view   *)
(* is TRUE for a slice of another array (arr.base is not None).            *)
(***************************************************************************)
NoArr == [kind |-> "none", shape |-> <<>>, data |-> <<>>, mem |-> "none",
          from |-> "none", view |-> FALSE]

ndim(arr) == Len(arr.shape)
ncols(arr) == IF Len(arr.shape) = 2 THEN arr.shape[2] ELSE 1

\* The entry the caller's arrays hold at (i, j): distinct at distinct places.
Entry(i, j) == Cx(3 * i + j, i + j - 1)

\* A caller's array-like argument: an ndarray or a nested list.
CallerArr(name, kind, shape, nan) ==
    [kind |-> kind, shape |-> shape,
     data |-> [i \in 1..shape[1] |->
                 [j \in 1..(IF Len(shape) = 2 THEN shape[2] ELSE 1) |->
                    IF nan /\ i = 1 /\ j = 1 THEN NaN ELSE Entry(i, j)]],
     mem |-> name, from |-> name, view |-> FALSE]

Shapes1D == {<<n>> : n \in Dims}
Shapes2D == {<<r, c>> : r \in Dims, c \in Dims}
Kinds == {"ndarray", "list"}

\* Shapes tried for a coefficient matrix: every 2-D shape and one 1-D shape.
MatShapes == Shapes2D \cup {<<MaxN>>}
\* Shapes tried for a right-hand side: vectors, and matrices of MaxRhs columns.
RhsShapes == Shapes1D \cup {<<n, MaxRhs>> : n \in Dims}
\* Which argument, if any, holds a non-finite entry.
NanIn == {"none", "a", "b"}

\* Row i of a 2-D array, columns lo..hi, as a 1-D view of the same memory.
RowView(arr, i, lo, hi) ==
    [kind |-> "ndarray", shape |-> <<IF hi >= lo THEN hi - lo + 1 ELSE 0>>,
     data |-> [k \in 1..(IF hi >= lo THEN hi - lo + 1 ELSE 0) |->
                 <<arr.data[i][lo + k - 1]>>],
     mem |-> arr.mem, from |-> arr.from, view |-> TRUE]

\* arr.conj(): a new array holding the conjugates.
ConjCopy(arr) ==
    [arr EXCEPT !.data = [i \in 1..Len(arr.data) |->
                            [j \in 1..Len(arr.data[i]) |-> conj(arr.data[i][j])]],
                !.mem = "fresh", !.view = FALSE]

\* arr.real: the real parts, a view of the same memory.
RealView(arr) ==
    [arr EXCEPT !.data = [i \in 1..Len(arr.data) |->
                            [j \in 1..Len(arr.data[i]) |-> real(arr.data[i][j])]],
                !.view = TRUE]

isfinite(arr) ==
    \A i \in 1..Len(arr.data) : \A j \in 1..Len(arr.data[i]) : ~arr.data[i][j].nan

(***************************************************************************)
(* Trace events and outcomes.                                              *)
(***************************************************************************)
ValidateEv(name, check) ==
    [ev |-> "validate", name |-> name, check |-> check, args |-> <<>>,
     perms |-> <<>>, info |-> 0, ret |-> NoArr, aux |-> <<>>]

KernelEv(name, kargs, perms, info, ret, aux) ==
    [ev |-> "kernel", name |-> name, check |-> FALSE, args |-> kargs,
     perms |-> perms, info |-> info, ret |-> ret, aux |-> aux]

NoOut == [kind |-> "none", msg |-> "", num |-> 0, x |-> NoArr,
          resids |-> NoArr, rank |-> 0 - 1, s |-> <<>>]

Raise(kind, msg, num) == [NoOut EXCEPT !.kind = kind, !.msg = msg, !.num = num]
Return(x) == [NoOut EXCEPT !.kind = "return", !.x = x]

(***************************************************************************)
(* decomp._asarray_validated and misc._datacopied.                         *)
(***************************************************************************)
\* The validated array: an ndarray is passed through (same memory), anything
\* else is converted into a freshly allocated ndarray.
asarray(a) ==
    IF a.kind = "ndarray" THEN a
    ELSE [a EXCEPT !.kind = "ndarray", !.mem = "fresh"]

\* [ok, arr, err]: with check_finite, a non-finite entry is a ValueError.
asarray_validated(a, check_finite) ==
    IF check_finite /\ ~isfinite(a)
    THEN [ok |-> FALSE, arr |-> NoArr,
          err |-> Raise("ValueError", "array must not contain infs or NaNs", 0)]
    ELSE [ok |-> TRUE, arr |-> asarray(a), err |-> NoOut]

\* True when arr is a fresh array made from original, not original itself
\* and not a view.
datacopied(arr, original) ==
    /\ ~(arr.mem = original.mem /\ arr.kind = original.kind)
    /\ ~arr.view

\* What a kernel hands back as its solution: an array of the given shape
\* whose entries depend on the place and on seed.  mem is the memory it
\* occupies: the input buffer when the kernel was allowed to overwrite it.
KernelOut(name, shape, seed, mem) ==
    [kind |-> "ndarray", shape |-> shape,
     data |-> [i \in 1..shape[1] |->
                 [j \in 1..(IF Len(shape) = 2 THEN shape[2] ELSE 1) |->
                    Cx(seed + i, j - seed)]],
     mem |-> mem, from |-> name, view |-> FALSE]

\* The memory of a kernel's in/out argument: the buffer itself when the
\* kernel may overwrite it, a copy otherwise.
InPlace(arr, perm) == IF perm THEN arr.mem ELSE "fresh"

(***************************************************************************)
(* A call: its arguments, and how it ends.                                 *)
(***************************************************************************)
Finish(name, a, r) ==
    /\ pc' = "done"
    /\ op' = name
    /\ args' = a
    /\ trace' = r.trace
    /\ out' = r.out

\* Whether a call got as far as a kernel (or the Levinson recursion).
Invoked(e) == e.ev \in {"kernel", "levinson"}
ReachesKernel(r) == \E i \in 1..Len(r.trace) : Invoked(r.trace[i])
\* The status codes a kernel may report to a call; a call that never reaches
\* a kernel has none to draw.
Infos(r) == IF ReachesKernel(r) THEN InfoSet ELSE {0}

(***************************************************************************)
(* solve                                                                   *)
(***************************************************************************)
FlagArgs == [a |-> NoArr, b |-> NoArr, r |-> NoArr, has_r |-> FALSE,
             sym_pos |-> FALSE, lower |-> FALSE,
             overwrite_a |-> FALSE, overwrite_b |-> FALSE,
             check_finite |-> TRUE, l |-> 0, u |-> 0, driver |-> "",
             cond |-> [m |-> 0, e |-> 0, none |-> TRUE],
             rcond |-> [m |-> 0, e |-> 0, none |-> TRUE], t |-> "d",
             return_rank |-> FALSE]

solve_status(t, x, info) ==
    IF info = 0 THEN [trace |-> t, out |-> Return(x)]
    ELSE IF info > 0
    THEN [trace |-> t, out |-> Raise("LinAlgError", "singular matrix", 0)]
    ELSE [trace |-> t,
          out |-> Raise("ValueError",
                        "illegal value in %d-th argument of internal gesv|posv",
                        0 - info)]

\* A dispatch that ignores sym_pos.
solve_kernel_always_lu(sym_pos) == "gesv"

solve_kernel(sym_pos) == IF sym_pos THEN "posv" ELSE "gesv"

solve_dispatch(t, a1, b1, sym_pos, lower, ow_a, ow_b, info) ==
    LET x == KernelOut(solve_kernel(sym_pos), b1.shape, 0, InPlace(b1, ow_b))
        ev == KernelEv(solve_kernel(sym_pos), <<a1, b1>>, <<ow_a, ow_b>>, info, x,
                       IF sym_pos THEN <<lower>> ELSE <<>>)
    IN solve_status(Append(t, ev), x, info)

solve_call(a, b, sym_pos, lower, overwrite_a, overwrite_b, check_finite, info) ==
    LET va == asarray_validated(a, check_finite)
        t1 == <<ValidateEv("a", check_finite)>>
    IN IF ~va.ok THEN [trace |-> t1, out |-> va.err]
       ELSE
       LET vb == asarray_validated(b, check_finite)
           t2 == Append(t1, ValidateEv("b", check_finite))
           a1 == va.arr
           b1 == vb.arr
       IN IF ~vb.ok THEN [trace |-> t2, out |-> vb.err]
          ELSE IF ndim(a1) # 2 \/ a1.shape[1] # a1.shape[2]
          THEN [trace |-> t2, out |-> Raise("ValueError", "expected square matrix", 0)]
          ELSE IF a1.shape[1] # b1.shape[1]
          THEN [trace |-> t2, out |-> Raise("ValueError", "incompatible dimensions", 0)]
          ELSE solve_dispatch(t2, a1, b1, sym_pos, lower,
                              overwrite_a \/ datacopied(a1, a),
                              overwrite_b \/ datacopied(b1, b), info)

solve ==
    /\ pc = "idle"
    /\ \E ak \in Kinds, ash \in MatShapes, bk \in Kinds, bsh \in RhsShapes,
          nan \in NanIn, sym_pos \in BOOLEAN, lower \in BOOLEAN,
          overwrite_a \in BOOLEAN, overwrite_b \in BOOLEAN,
          check_finite \in BOOLEAN :
        LET a == CallerArr("a", ak, ash, nan = "a")
            b == CallerArr("b", bk, bsh, nan = "b")
        IN \E info \in Infos(solve_call(a, b, sym_pos, lower, overwrite_a,
                                         overwrite_b, check_finite, 0)) :
             Finish("solve",
                  [FlagArgs EXCEPT !.a = a, !.b = b, !.sym_pos = sym_pos,
                                   !.lower = lower, !.overwrite_a = overwrite_a,
                                   !.overwrite_b = overwrite_b,
                                   !.check_finite = check_finite],
                  solve_call(a, b, sym_pos, lower, overwrite_a, overwrite_b,
                             check_finite, info))

(***************************************************************************)
(* solve_triangular                                                        *)
(***************************************************************************)
\* {'N': 0, 'T': 1, 'C': 2}.get(trans, trans)
trans_code(trans) ==
    IF trans = "N" THEN 0 ELSE IF trans = "T" THEN 1 ELSE 2

solve_triangular_status(t, x, info) ==
    IF info = 0 THEN [trace |-> t, out |-> Return(x)]
    ELSE IF info > 0
    THEN [trace |-> t,
          out |-> Raise("LinAlgError",
                        "singular matrix: resolution failed at diagonal %s",
                        info - 1)]
    ELSE [trace |-> t,
          out |-> Raise("ValueError",
                        "illegal value in %d-th argument of internal trtrs",
                        0 - info)]

solve_triangular_call(a, b, trans, lower, unit_diagonal, overwrite_b, check_finite, info) ==
    LET va == asarray_validated(a, check_finite)
        t1 == <<ValidateEv("a", check_finite)>>
    IN IF ~va.ok THEN [trace |-> t1, out |-> va.err]
       ELSE
       LET vb == asarray_validated(b, check_finite)
           t2 == Append(t1, ValidateEv("b", check_finite))
           a1 == va.arr
           b1 == vb.arr
       IN IF ~vb.ok THEN [trace |-> t2, out |-> vb.err]
          ELSE IF ndim(a1) # 2 \/ a1.shape[1] # a1.shape[2]
          THEN [trace |-> t2, out |-> Raise("ValueError", "expected square matrix", 0)]
          ELSE IF a1.shape[1] # b1.shape[1]
          THEN [trace |-> t2, out |-> Raise("ValueError", "incompatible dimensions", 0)]
          ELSE LET ow_b == overwrite_b \/ datacopied(b1, b)
                   x == KernelOut("trtrs", b1.shape, 0, InPlace(b1, ow_b))
                   ev == KernelEv("trtrs", <<a1, b1>>, <<FALSE, ow_b>>, info, x,
                                  <<trans_code(trans), lower, unit_diagonal>>)
               IN solve_triangular_status(Append(t2, ev), x, info)

solve_triangular ==
    /\ pc = "idle"
    /\ \E ak \in Kinds, ash \in MatShapes, bk \in Kinds, bsh \in RhsShapes,
          nan \in NanIn,
          tlu \in {<<"N", FALSE, FALSE>>, <<"T", TRUE, FALSE>>, <<"C", FALSE, TRUE>>},
          overwrite_b \in BOOLEAN, check_finite \in BOOLEAN :
        LET a == CallerArr("a", ak, ash, nan = "a")
            b == CallerArr("b", bk, bsh, nan = "b")
        IN \E info \in Infos(solve_triangular_call(a, b, tlu[1], tlu[2], tlu[3],
                                                   overwrite_b, check_finite, 0)) :
             Finish("solve_triangular",
                  [FlagArgs EXCEPT !.a = a, !.b = b, !.lower = tlu[2],
                                   !.overwrite_b = overwrite_b,
                                   !.check_finite = check_finite],
                  solve_triangular_call(a, b, tlu[1], tlu[2], tlu[3], overwrite_b,
                                        check_finite, info))

(***************************************************************************)
(* solve_banded                                                            *)
(***************************************************************************)
solve_banded_status(t, x, info) ==
    IF info = 0 THEN [trace |-> t, out |-> Return(x)]
    ELSE IF info > 0
    THEN [trace |-> t, out |-> Raise("LinAlgError", "singular matrix", 0)]
    ELSE [trace |-> t,
          out |-> Raise("ValueError",
                        "illegal value in %d-th argument of internal gbsv/gtsv",
                        0 - info)]

\* The message of the l+u+1 check reads ab.shape[0] of the caller's object,
\* which only an ndarray has.
solve_banded_bad_lu(ab) ==
    IF ab.kind = "ndarray"
    THEN Raise("ValueError",
               "invalid values for the number of lower and upper diagonals", 0)
    ELSE Raise("AttributeError", "'list' object has no attribute 'shape'", 0)

\* Whether the tridiagonal kernel may overwrite the three diagonals.
solve_banded_tri_overwrite_ab(overwrite_ab, a1, ab, b1, b) ==
    overwrite_ab \/ datacopied(b1, b)

\* The tridiagonal path, l == u == 1.
solve_banded_gtsv(t, a1, ab, b1, b, overwrite_ab, ow_b, info) ==
    LET ow_ab == solve_banded_tri_overwrite_ab(overwrite_ab, a1, ab, b1, b)
        n == a1.shape[2]
        du == RowView(a1, 1, 2, n)
        d == RowView(a1, 2, 1, n)
        dl == RowView(a1, 3, 1, n - 1)
        x == KernelOut("gtsv", b.shape, 0, InPlace(asarray(b), ow_b))
        ev == KernelEv("gtsv", <<dl, d, du, b>>, <<ow_ab, ow_ab, ow_ab, ow_b>>,
                       info, x, <<>>)
    IN solve_banded_status(Append(t, ev), x, info)

\* Banded-LU storage that is the validated ab itself, without fill-in rows.
solve_banded_a2_unexpanded(l, u, a1) == a1

\* a2 = zeros((2*l+u+1, n)); a2[l:,:] = a1
solve_banded_a2(l, u, a1) ==
    [kind |-> "ndarray", shape |-> <<2 * l + u + 1, a1.shape[2]>>,
     data |-> [i \in 1..(2 * l + u + 1) |->
                 [j \in 1..a1.shape[2] |->
                    IF i <= l THEN Zero ELSE a1.data[i - l][j]]],
     mem |-> "fresh", from |-> a1.from, view |-> FALSE]

\* The general path: banded LU on the expanded storage.
solve_banded_gbsv(t, l, u, a1, b1, ow_b, info) ==
    LET a2 == solve_banded_a2(l, u, a1)
        x == KernelOut("gbsv", b1.shape, 0, InPlace(b1, ow_b))
        ev == KernelEv("gbsv", <<a2, b1>>, <<TRUE, ow_b>>, info, x, <<l, u>>)
    IN solve_banded_status(Append(t, ev), x, info)

solve_banded_call(l, u, ab, b, overwrite_ab, overwrite_b, check_finite, info) ==
    LET va == asarray_validated(ab, check_finite)
        t1 == <<ValidateEv("a", check_finite)>>
    IN IF ~va.ok THEN [trace |-> t1, out |-> va.err]
       ELSE
       LET vb == asarray_validated(b, check_finite)
           t2 == Append(t1, ValidateEv("b", check_finite))
           a1 == va.arr
           b1 == vb.arr
       IN IF ~vb.ok THEN [trace |-> t2, out |-> vb.err]
          ELSE IF a1.shape[Len(a1.shape)] # b1.shape[1]
          THEN [trace |-> t2,
                out |-> Raise("ValueError", "shapes of ab and b are not compatible.", 0)]
          ELSE IF l + u + 1 # a1.shape[1]
          THEN [trace |-> t2, out |-> solve_banded_bad_lu(ab)]
          ELSE LET ow_b == overwrite_b \/ datacopied(b1, b)
               IN IF l = u /\ u = 1
                  THEN solve_banded_gtsv(t2, a1, ab, b1, b, overwrite_ab, ow_b, info)
                  ELSE solve_banded_gbsv(t2, l, u, a1, b1, ow_b, info)

solve_banded ==
    /\ pc = "idle"
    /\ \E l \in 0..MaxBand, u \in 0..MaxBand, extra \in 0..1,
          ak \in Kinds, n \in Dims, bk \in Kinds, bsh \in RhsShapes,
          nan \in NanIn, overwrite_ab \in BOOLEAN, overwrite_b \in BOOLEAN,
          check_finite \in BOOLEAN :
        LET ab == CallerArr("a", ak, <<l + u + 1 + extra, n>>, nan = "a")
            b == CallerArr("b", bk, bsh, nan = "b")
        IN \E info \in Infos(solve_banded_call(l, u, ab, b, overwrite_ab,
                                               overwrite_b, check_finite, 0)) :
             Finish("solve_banded",
                  [FlagArgs EXCEPT !.a = ab, !.b = b, !.l = l, !.u = u,
                                   !.overwrite_a = overwrite_ab,
                                   !.overwrite_b = overwrite_b,
                                   !.check_finite = check_finite],
                  solve_banded_call(l, u, ab, b, overwrite_ab, overwrite_b,
                                    check_finite, info))

(***************************************************************************)
(* solveh_banded                                                           *)
(***************************************************************************)
solveh_banded_status(t, x, info) ==
    IF info > 0
    THEN [trace |-> t,
          out |-> Raise("LinAlgError", "%d-th leading minor not positive definite",
                        info)]
    ELSE IF info < 0
    THEN [trace |-> t,
          out |-> Raise("ValueError",
                        "illegal value in %d-th argument of internal pbsv",
                        0 - info)]
    ELSE [trace |-> t, out |-> Return(x)]

\* Main diagonal handed to ptsv.
solveh_banded_d(a1, lower) ==
    IF lower THEN RealView(RowView(a1, 1, 1, a1.shape[2]))
    ELSE RealView(RowView(a1, 2, 1, a1.shape[2]))

\* An off-diagonal taken from the upper form without conjugation.
solveh_banded_e_unconjugated(a1, lower) ==
    IF lower THEN RowView(a1, 2, 1, a1.shape[2] - 1)
    ELSE RowView(a1, 1, 2, a1.shape[2])

\* Off-diagonal handed to ptsv.
solveh_banded_e(a1, lower) ==
    IF lower THEN RowView(a1, 2, 1, a1.shape[2] - 1)
    ELSE ConjCopy(RowView(a1, 1, 2, a1.shape[2]))

\* The kernel chosen from the number of storage rows.
solveh_banded_use_ptsv(a1) == a1.shape[1] = 2

solveh_banded_dispatch(t, a1, b1, lower, ow_ab, ow_b, info) ==
    IF solveh_banded_use_ptsv(a1)
    THEN LET d == solveh_banded_d(a1, lower)
             e == solveh_banded_e(a1, lower)
             x == KernelOut("ptsv", b1.shape, 0, InPlace(b1, ow_b))
             ev == KernelEv("ptsv", <<d, e, b1>>, <<ow_ab, ow_ab, ow_b>>, info, x,
                            <<>>)
         IN solveh_banded_status(Append(t, ev), x, info)
    ELSE LET x == KernelOut("pbsv", b1.shape, 0, InPlace(b1, ow_b))
             ev == KernelEv("pbsv", <<a1, b1>>, <<ow_ab, ow_b>>, info, x, <<lower>>)
         IN solveh_banded_status(Append(t, ev), x, info)

solveh_banded_call(ab, b, lower, overwrite_ab, overwrite_b, check_finite, info) ==
    LET va == asarray_validated(ab, check_finite)
        t1 == <<ValidateEv("a", check_finite)>>
    IN IF ~va.ok THEN [trace |-> t1, out |-> va.err]
       ELSE
       LET vb == asarray_validated(b, check_finite)
           t2 == Append(t1, ValidateEv("b", check_finite))
           a1 == va.arr
           b1 == vb.arr
       IN IF ~vb.ok THEN [trace |-> t2, out |-> vb.err]
          ELSE IF a1.shape[Len(a1.shape)] # b1.shape[1]
          THEN [trace |-> t2,
                out |-> Raise("ValueError", "shapes of ab and b are not compatible.", 0)]
          ELSE solveh_banded_dispatch(t2, a1, b1, lower,
                                      overwrite_ab \/ datacopied(a1, ab),
                                      overwrite_b \/ datacopied(b1, b), info)

solveh_banded ==
    /\ pc = "idle"
    /\ \E rows \in 1..(MaxBand + 2), ak \in Kinds, n \in Dims,
          bk \in Kinds, bsh \in RhsShapes, nan \in NanIn, lower \in BOOLEAN,
          overwrite_ab \in BOOLEAN, overwrite_b \in BOOLEAN,
          check_finite \in BOOLEAN :
        LET ab == CallerArr("a", ak, <<rows, n>>, nan = "a")
            b == CallerArr("b", bk, bsh, nan = "b")
        IN \E info \in Infos(solveh_banded_call(ab, b, lower, overwrite_ab,
                                                overwrite_b, check_finite, 0)) :
             Finish("solveh_banded",
                  [FlagArgs EXCEPT !.a = ab, !.b = b, !.lower = lower,
                                   !.overwrite_a = overwrite_ab,
                                   !.overwrite_b = overwrite_b,
                                   !.check_finite = check_finite],
                  solveh_banded_call(ab, b, lower, overwrite_ab, overwrite_b,
                                     check_finite, info))

(***************************************************************************)
(* solve_toeplitz                                                          *)
(***************************************************************************)
\* An absent argument (None).
NoneArg(name) == [NoArr EXCEPT !.mem = name, !.from = name]

\* arr.ravel() of a validated 1-D input.
ravel(arr) == arr

\* np.concatenate((r[-1:0:-1], c)): r without r[0], reversed, followed by c.
toeplitz_vals(c, r) ==
    LET nr == Len(r.data)
        nc == Len(c.data)
    IN [kind |-> "ndarray", shape |-> <<(nr - 1) + nc>>,
        data |-> [k \in 1..((nr - 1) + nc) |->
                    IF k <= nr - 1 THEN r.data[nr - k + 1] ELSE c.data[k - (nr - 1)]],
        mem |-> "fresh", from |-> "vals", view |-> FALSE]

\* Column j of the right-hand side, as handed to the recursion.
ColView(b, j) ==
    [kind |-> "ndarray", shape |-> <<b.shape[1]>>,
     data |-> [i \in 1..b.shape[1] |-> <<b.data[i][j]>>],
     mem |-> b.mem, from |-> b.from, view |-> TRUE]

LevinsonEv(vals, bcol) ==
    [ev |-> "levinson", name |-> "levinson", check |-> FALSE,
     args |-> <<vals, bcol>>, perms |-> <<FALSE, FALSE>>, info |-> 0,
     ret |-> NoArr, aux |-> <<>>]

\* One recursion per right-hand-side column.
toeplitz_levinson(t, vals, b) ==
    LET evs == [j \in 1..ncols(b) |->
                  LevinsonEv(vals, IF ndim(b) = 1 THEN b ELSE ColView(b, j))]
    IN [trace |-> t \o evs,
        out |-> Return(KernelOut("levinson", b.shape, 0, "fresh"))]

\* From the construction of vals to the end of the call.
toeplitz_solve(t, c, r, b) ==
    LET vals == toeplitz_vals(c, r)
    IN IF b.kind = "none"
       THEN [trace |-> t,
             out |-> Raise("ValueError", "illegal value, b is a required argument", 0)]
       ELSE IF b.kind # "ndarray"
       THEN [trace |-> t,
             out |-> Raise("AttributeError", "'list' object has no attribute 'shape'", 0)]
       ELSE IF vals.shape[1] # 2 * b.shape[1] - 1
       THEN [trace |-> t, out |-> Raise("ValueError", "incompatible dimensions", 0)]
       ELSE LET vb == asarray_validated(b, TRUE)
                t2 == Append(t, ValidateEv("b", TRUE))
            IN IF ~vb.ok THEN [trace |-> t2, out |-> vb.err]
               ELSE toeplitz_levinson(t2, vals, vb.arr)

solve_toeplitz_call(c, r, has_r, b, check_finite) ==
    LET vc == asarray_validated(c, check_finite)
        t1 == <<ValidateEv("c", check_finite)>>
    IN IF ~vc.ok THEN [trace |-> t1, out |-> vc.err]
       ELSE IF has_r
       THEN LET vr == asarray_validated(r, check_finite)
                t2 == Append(t1, ValidateEv("r", check_finite))
            IN IF ~vr.ok THEN [trace |-> t2, out |-> vr.err]
               ELSE toeplitz_solve(t2, ravel(vc.arr), ravel(vr.arr), b)
       ELSE toeplitz_solve(t1, ravel(vc.arr), ConjCopy(ravel(vc.arr)), b)

\* Lengths tried for c and r: one more than the largest right-hand side.
GenLens == 1..(MaxN + 1)

solve_toeplitz ==
    /\ pc = "idle"
    /\ \E ck \in Kinds, cn \in GenLens, has_r \in BOOLEAN, rk \in Kinds,
          rn \in GenLens, bk \in Kinds \cup {"none"}, bsh \in RhsShapes,
          nan \in {"none", "c", "r", "b"}, check_finite \in BOOLEAN :
        /\ has_r \/ (rk = "ndarray" /\ rn = 1 /\ nan # "r")
        /\ bk # "none" \/ (bsh = <<1>> /\ nan # "b")
        /\ LET c == CallerArr("c", ck, <<cn>>, nan = "c")
               r == IF has_r THEN CallerArr("r", rk, <<rn>>, nan = "r")
                    ELSE NoneArg("r")
               b == IF bk = "none" THEN NoneArg("b")
                    ELSE CallerArr("b", bk, bsh, nan = "b")
           IN Finish("solve_toeplitz",
                     [FlagArgs EXCEPT !.a = c, !.r = r, !.has_r = has_r, !.b = b,
                                      !.check_finite = check_finite],
                     solve_toeplitz_call(c, r, has_r, b, check_finite))

(***************************************************************************)
(* inv                                                                     *)
(***************************************************************************)
\* The queried workspace size passed on as it is.
inv_lwork_as_queried(q) == q

\* lwork = int(1.01 * lwork)
inv_lwork(q) == (101 * q) \div 100

\* A status reading that, like det's, lets a positive status through.
inv_status_singular_returns(t, inv_a, info) ==
    IF info < 0
    THEN [trace |-> t,
          out |-> Raise("ValueError",
                        "illegal value in %d-th argument of internal getrf|getri",
                        0 - info)]
    ELSE [trace |-> t, out |-> Return(inv_a)]

inv_status(t, inv_a, info) ==
    IF info > 0
    THEN [trace |-> t, out |-> Raise("LinAlgError", "singular matrix", 0)]
    ELSE IF info < 0
    THEN [trace |-> t,
          out |-> Raise("ValueError",
                        "illegal value in %d-th argument of internal getrf|getri",
                        0 - info)]
    ELSE [trace |-> t, out |-> Return(inv_a)]

\* After getrf reported 0: the workspace query, then the inversion.
inv_getri(t, lu, n, q, info2, info3) ==
    LET evq == KernelEv("getri_lwork", <<>>, <<>>, info2, NoArr, <<n, q>>)
        t2 == Append(t, evq)
    IN IF info2 # 0
       THEN [trace |-> t2,
             out |-> Raise("ValueError", "internal getri work space query failed: %d",
                           info2)]
       ELSE LET inv_a == KernelOut("getri", lu.shape, 0, lu.mem)
                ev == KernelEv("getri", <<lu>>, <<TRUE>>, info3, inv_a,
                               <<inv_lwork(q)>>)
            IN inv_status(Append(t2, ev), inv_a, info3)

inv_call(a, overwrite_a, check_finite, q, info1, info2, info3) ==
    LET va == asarray_validated(a, check_finite)
        t1 == <<ValidateEv("a", check_finite)>>
        a1 == va.arr
    IN IF ~va.ok THEN [trace |-> t1, out |-> va.err]
       ELSE IF ndim(a1) # 2 \/ a1.shape[1] # a1.shape[2]
       THEN [trace |-> t1, out |-> Raise("ValueError", "expected square matrix", 0)]
       ELSE LET ow_a == overwrite_a \/ datacopied(a1, a)
                lu == KernelOut("getrf", a1.shape, 0, InPlace(a1, ow_a))
                ev == KernelEv("getrf", <<a1>>, <<ow_a>>, info1, lu, <<>>)
                t2 == Append(t1, ev)
            IN IF info1 = 0
               THEN inv_getri(t2, lu, a1.shape[1], q, info2, info3)
               ELSE inv_status(t2, NoArr, info1)

\* Workspace sizes the query may report for an n x n matrix: n times a
\* block size.
LworkSet(n) == {n * nb : nb \in {1, 64, 128}}

inv ==
    /\ pc = "idle"
    /\ \E ak \in Kinds, ash \in MatShapes, an \in BOOLEAN,
          overwrite_a \in BOOLEAN, check_finite \in BOOLEAN :
        LET a == CallerArr("a", ak, ash, an)
            reach == ReachesKernel(inv_call(a, overwrite_a, check_finite, 1, 0, 0, 0))
        IN \E info1 \in (IF reach THEN InfoSet ELSE {0}) :
           \E info2 \in (IF reach /\ info1 = 0 THEN InfoSet ELSE {0}) :
           \E info3 \in (IF reach /\ info1 = 0 /\ info2 = 0 THEN InfoSet ELSE {0}) :
           \E q \in (IF reach /\ info1 = 0 THEN LworkSet(ash[1]) ELSE {1}) :
             Finish("inv",
                    [FlagArgs EXCEPT !.a = a, !.overwrite_a = overwrite_a,
                                     !.check_finite = check_finite],
                    inv_call(a, overwrite_a, check_finite, q, info1, info2, info3))

(***************************************************************************)
(* det                                                                     *)
(***************************************************************************)
\* The determinant the kernel reports: a scalar.
Scalar(name, v) ==
    [kind |-> "ndarray", shape |-> <<>>, data |-> <<<<v>>>>, mem |-> "fresh",
     from |-> name, view |-> FALSE]

\* A status reading that, like inv's, refuses a positive status.
det_status_singular_raises(t, a_det, info) ==
    IF info > 0
    THEN [trace |-> t, out |-> Raise("LinAlgError", "singular matrix", 0)]
    ELSE IF info < 0
    THEN [trace |-> t,
          out |-> Raise("ValueError",
                        "illegal value in %d-th argument of internal det.getrf",
                        0 - info)]
    ELSE [trace |-> t, out |-> Return(a_det)]

det_status(t, a_det, info) ==
    IF info < 0
    THEN [trace |-> t,
          out |-> Raise("ValueError",
                        "illegal value in %d-th argument of internal det.getrf",
                        0 - info)]
    ELSE [trace |-> t, out |-> Return(a_det)]

det_call(a, overwrite_a, check_finite, v, info) ==
    LET va == asarray_validated(a, check_finite)
        t1 == <<ValidateEv("a", check_finite)>>
        a1 == va.arr
    IN IF ~va.ok THEN [trace |-> t1, out |-> va.err]
       ELSE IF ndim(a1) # 2 \/ a1.shape[1] # a1.shape[2]
       THEN [trace |-> t1, out |-> Raise("ValueError", "expected square matrix", 0)]
       ELSE LET ow_a == overwrite_a \/ datacopied(a1, a)
                a_det == Scalar("det", Cx(v, 0))
                ev == KernelEv("det", <<a1>>, <<ow_a>>, info, a_det, <<>>)
            IN det_status(Append(t1, ev), a_det, info)

det ==
    /\ pc = "idle"
    /\ \E ak \in Kinds, ash \in MatShapes, an \in BOOLEAN,
          overwrite_a \in BOOLEAN, check_finite \in BOOLEAN :
        LET a == CallerArr("a", ak, ash, an)
            r0 == det_call(a, overwrite_a, check_finite, 0, 0)
        IN \E info \in Infos(r0) :
           \E v \in (IF ~ReachesKernel(r0) THEN {0}
                     ELSE IF info > 0 THEN {0} ELSE {0 - 2, 0, 3}) :
             Finish("det",
                    [FlagArgs EXCEPT !.a = a, !.overwrite_a = overwrite_a,
                                     !.check_finite = check_finite],
                    det_call(a, overwrite_a, check_finite, v, info))

(***************************************************************************)
(* lstsq                                                                   *)
(***************************************************************************)
\* A floating-point value m * 2^e.
F(m, e) == [m |-> m, e |-> e, none |-> FALSE]
\* cond=None
CondNone == [m |-> 0, e |-> 0, none |-> TRUE]

lstsq_default_driver == "gelsd"

Drivers == {"gelsd", "gelsy", "gelss"}

EmptyArr(name) ==
    [kind |-> "ndarray", shape |-> <<0>>, data |-> <<>>, mem |-> "fresh",
     from |-> name, view |-> FALSE]

\* Number of elements of an array.
size(arr) == IF arr.data = <<>> THEN 0 ELSE Len(arr.data) * Len(arr.data[1])

\* b2 = np.zeros(...); b2[:m] = b1
lstsq_pad(b1, m, n) ==
    [kind |-> "ndarray",
     shape |-> IF ndim(b1) = 2 THEN <<n, b1.shape[2]>> ELSE <<n>>,
     data |-> [i \in 1..n |->
                 [j \in 1..ncols(b1) |-> IF i <= m THEN b1.data[i][j] ELSE Zero]],
     mem |-> "fresh", from |-> b1.from, view |-> FALSE]

\* A right-hand side that is never padded.
lstsq_rhs_unpadded(b1, m, n) == b1

\* The right-hand side handed to the kernel.
lstsq_rhs(b1, m, n) == IF n > m THEN lstsq_pad(b1, m, n) ELSE b1

RECURSIVE SumAbs2(_, _, _, _)
\* Sum over rows lo..hi of |x[i][j]|^2.
SumAbs2(x, j, lo, hi) ==
    IF lo > hi THEN 0 ELSE abs2(x.data[lo][j]) + SumAbs2(x, j, lo + 1, hi)

\* np.sum(np.abs(x[n:])**2, axis=0)
lstsq_resids(x, n) ==
    IF ndim(x) = 2
    THEN [kind |-> "ndarray", shape |-> <<x.shape[2]>>,
          data |-> [j \in 1..x.shape[2] |->
                      <<Cx(SumAbs2(x, j, n + 1, x.shape[1]), 0)>>],
          mem |-> "fresh", from |-> "resids", view |-> FALSE]
    ELSE [kind |-> "ndarray", shape |-> <<>>,
          data |-> <<<<Cx(SumAbs2(x, 1, n + 1, x.shape[1]), 0)>>>>,
          mem |-> "fresh", from |-> "resids", view |-> FALSE]

\* x[:n]
FirstRows(x, n) ==
    [x EXCEPT !.shape = IF ndim(x) = 2 THEN <<n, x.shape[2]>> ELSE <<n>>,
              !.data = [i \in 1..n |-> x.data[i]],
              !.view = TRUE]

\* A residual test that forgets the rank.
lstsq_has_resids_any_rank(m, n, rank) == n < m

\* Whether the residuals are computed.
lstsq_has_resids(m, n, rank) == n < m /\ rank = n

\* Lines 633-638: residuals and the solution rows cut from the kernel's x.
lstsq_result(x, s, rank, m, n) ==
    [NoOut EXCEPT !.kind = "return",
                  !.x = IF n < m THEN FirstRows(x, n) ELSE x,
                  !.resids = IF lstsq_has_resids(m, n, rank)
                             THEN lstsq_resids(x, n) ELSE EmptyArr("resids"),
                  !.rank = rank,
                  !.s = s]

\* The singular values a kernel reports for an m x n matrix: min(m, n) of
\* them, as mantissa and binary exponent.
KernelS(m, n) == [i \in 1..(IF m < n THEN m ELSE n) |-> [m |-> 1, e |-> 1 - i]]

\* The gelss branch: workspace query, the kernel call, its status.
lstsq_gelss(t, a1, b1, cond, m, n, ow_a, ow_b, info, rank, seed) ==
    LET evq == KernelEv("gelss", <<a1, b1>>, <<FALSE, FALSE>>, 0, NoArr, <<0 - 1>>)
        x == KernelOut("gelss", b1.shape, seed, InPlace(b1, ow_b))
        ev == KernelEv("gelss", <<a1, b1>>, <<ow_a, ow_b>>, info, x, <<rank, cond>>)
        t2 == t \o <<evq, ev>>
    IN IF info > 0
       THEN [trace |-> t2,
             out |-> Raise("LinAlgError",
                           "SVD did not converge in Linear Least Squares", 0)]
       ELSE IF info < 0
       THEN [trace |-> t2,
             out |-> Raise("ValueError",
                           "illegal value in %d-th argument of internal gelss",
                           0 - info)]
       ELSE [trace |-> t2, out |-> lstsq_result(x, KernelS(m, n), rank, m, n)]

\* Lines 620-639: only the gelss branch binds x, resids, rank and s.
lstsq_driver(t, lapack_driver, a1, b1, cond, m, n, ow_a, ow_b, info, rank, seed) ==
    IF lapack_driver = "gelss"
    THEN lstsq_gelss(t, a1, b1, cond, m, n, ow_a, ow_b, info, rank, seed)
    ELSE [trace |-> t,
          out |-> Raise("UnboundLocalError",
                        "local variable 'x' referenced before assignment", 0)]

lstsq_call(a, b, cond, overwrite_a, overwrite_b, check_finite, lapack_driver, info, rank, seed) ==
    LET va == asarray_validated(a, check_finite)
        t1 == <<ValidateEv("a", check_finite)>>
    IN IF ~va.ok THEN [trace |-> t1, out |-> va.err]
       ELSE
       LET vb == asarray_validated(b, check_finite)
           t2 == Append(t1, ValidateEv("b", check_finite))
           a1 == va.arr
       IN IF ~vb.ok THEN [trace |-> t2, out |-> vb.err]
          ELSE IF ndim(a1) # 2
          THEN [trace |-> t2, out |-> Raise("ValueError", "expected matrix", 0)]
          ELSE IF a1.shape[1] # vb.arr.shape[1]
          THEN [trace |-> t2, out |-> Raise("ValueError", "incompatible dimensions", 0)]
          ELSE IF lapack_driver \notin Drivers
          THEN [trace |-> t2,
                out |-> Raise("ValueError", "LAPACK driver is not found", 0)]
          ELSE LET m == a1.shape[1]
                   n == a1.shape[2]
                   b1 == lstsq_rhs(vb.arr, m, n)
               IN lstsq_driver(t2, lapack_driver, a1, b1, cond, m, n,
                               overwrite_a \/ datacopied(a1, a),
                               overwrite_b \/ datacopied(b1, b),
                               info, rank, seed)

\* The cutoffs a caller passes to lstsq: none, or one half.
LstsqConds == {CondNone, F(1, 0 - 1)}

MinDim(sh) == IF Len(sh) # 2 THEN 0 ELSE IF sh[1] < sh[2] THEN sh[1] ELSE sh[2]

lstsq ==
    /\ pc = "idle"
    /\ \E ak \in Kinds, ash \in MatShapes, bk \in Kinds, bsh \in RhsShapes,
          nan \in NanIn, overwrite_a \in BOOLEAN, overwrite_b \in BOOLEAN,
          check_finite \in BOOLEAN, driver \in Drivers \cup {"gesv"} :
        LET a == CallerArr("a", ak, ash, nan = "a")
            b == CallerArr("b", bk, bsh, nan = "b")
            r0 == lstsq_call(a, b, CondNone, overwrite_a, overwrite_b, check_finite,
                             driver, 0, 0, 0)
        IN \E info \in Infos(r0) :
           \E cond \in (IF ReachesKernel(r0) THEN LstsqConds ELSE {CondNone}) :
           \E rank \in (IF ReachesKernel(r0) /\ info = 0
                        THEN 0..MinDim(ash) ELSE {0}) :
           \E seed \in (IF ReachesKernel(r0) /\ info = 0 THEN {0, 1} ELSE {0}) :
             Finish("lstsq",
                    [FlagArgs EXCEPT !.a = a, !.b = b,
                                     !.overwrite_a = overwrite_a,
                                     !.overwrite_b = overwrite_b,
                                     !.check_finite = check_finite,
                                     !.driver = driver, !.cond = cond],
                    lstsq_call(a, b, cond, overwrite_a, overwrite_b, check_finite,
                               driver, info, rank, seed))

(***************************************************************************)
(* Floating-point magnitudes for the rank cutoffs: m * 2^e, compared       *)
(* exactly.                                                                *)
(***************************************************************************)
RECURSIVE Pow2(_)
Pow2(k) == IF k = 0 THEN 1 ELSE 2 * Pow2(k - 1)

\* x > y for positive mantissas.
PosGt(x, y) ==
    LET d == x.e - y.e
    IN IF d >= 0
       THEN d >= 31 \/ Pow2(d) > (y.m \div x.m)
       ELSE (0 - d) < 31 /\ ((x.m - 1) \div y.m) >= Pow2(0 - d)

FNeg(x) == F(0 - x.m, x.e)
FAbs(x) == IF x.m < 0 THEN FNeg(x) ELSE x
FMul(x, y) == F(x.m * y.m, x.e + y.e)

\* x > y
FGt(x, y) ==
    IF x.m > 0 /\ y.m > 0 THEN PosGt(x, y)
    ELSE IF x.m < 0 /\ y.m < 0 THEN PosGt(FNeg(y), FNeg(x))
    ELSE x.m > y.m

RECURSIVE FMaxFrom(_, _)
\* np.max over s[k..]
FMaxFrom(s, k) ==
    IF k = Len(s) THEN s[k]
    ELSE LET rest == FMaxFrom(s, k + 1)
         IN IF FGt(s[k], rest) THEN s[k] ELSE rest

FMax(s) == FMaxFrom(s, 1)

\* np.finfo(t).eps
finfo_eps(t) == IF t = "f" THEN F(1, 0 - 23) ELSE F(1, 0 - 52)

\* factor = {'f': 1E3, 'd': 1E6}
factor_f == 1000
factor_d == 1000000

\* The default cutoff of pinv2 and pinvh.
default_cond(t) ==
    FMul(F(IF t = "f" THEN factor_f ELSE factor_d, 0), finfo_eps(t))

\* if rcond is not None: cond = rcond;  if cond in [None, -1]: the default.
cutoff(cond, rcond, t) ==
    LET c == IF ~rcond.none THEN rcond ELSE cond
    IN IF c.none \/ c = F(0 - 1, 0) THEN default_cond(t) ELSE c

\* The entries of s (in absolute value) strictly above cond * max.
above_cutoff(s, cond) ==
    LET mags == [i \in 1..Len(s) |-> FAbs(s[i])]
    IN {i \in 1..Len(s) : FGt(mags[i], FMul(cond, FMax(mags)))}

(***************************************************************************)
(* pinv                                                                    *)
(***************************************************************************)
\* np.identity(n)
identity(n) ==
    [kind |-> "ndarray", shape |-> <<n, n>>,
     data |-> [i \in 1..n |-> [j \in 1..n |-> IF i = j THEN One ELSE Zero]],
     mem |-> "identity", from |-> "identity", view |-> FALSE]

\* return x, rank  /  return x
pinv_return(o, return_rank) ==
    IF o.kind # "return" THEN o
    ELSE [NoOut EXCEPT !.kind = "return", !.x = o.x,
                       !.rank = IF return_rank THEN o.rank ELSE 0 - 1]

\* if rcond is not None: cond = rcond
pinv_cond(cond, rcond) == IF ~rcond.none THEN rcond ELSE cond

pinv_call(a, cond, rcond, return_rank, check_finite, info, rank, seed) ==
    LET va == asarray_validated(a, check_finite)
        t1 == <<ValidateEv("a", check_finite)>>
    IN IF ~va.ok THEN [trace |-> t1, out |-> va.err]
       ELSE LET r == lstsq_call(va.arr, identity(va.arr.shape[1]),
                                pinv_cond(cond, rcond), FALSE, FALSE,
                                FALSE, lstsq_default_driver, info, rank, seed)
            IN [trace |-> t1 \o r.trace, out |-> pinv_return(r.out, return_rank)]

pinv ==
    /\ pc = "idle"
    /\ \E ak \in Kinds, ash \in MatShapes, an \in BOOLEAN,
          cond \in LstsqConds, rcond \in {CondNone, F(1, 0 - 30)},
          return_rank \in BOOLEAN, check_finite \in BOOLEAN :
        LET a == CallerArr("a", ak, ash, an)
            r0 == pinv_call(a, cond, rcond, return_rank, check_finite, 0, 0, 0)
        IN \E info \in Infos(r0) :
           \E rank \in (IF ReachesKernel(r0) /\ info = 0
                        THEN 0..MinDim(ash) ELSE {0}) :
             Finish("pinv",
                    [FlagArgs EXCEPT !.a = a, !.cond = cond, !.rcond = rcond,
                                     !.return_rank = return_rank,
                                     !.check_finite = check_finite],
                    pinv_call(a, cond, rcond, return_rank, check_finite, info, rank, 0))

(***************************************************************************)
(* pinv2 and pinvh                                                         *)
(***************************************************************************)
\* The pseudo-inverse assembled from the retained components.
PinvOut(name, a1) ==
    KernelOut(name, <<a1.shape[2], a1.shape[1]>>, 0, "fresh")

\* decomp_svd.svd / decomp.eigh: shape check, the kernel, its status.
decomp_status(t, name, info) ==
    IF info > 0
    THEN [ok |-> FALSE, trace |-> t,
          out |-> Raise("LinAlgError", "did not converge", 0)]
    ELSE IF info < 0
    THEN [ok |-> FALSE, trace |-> t,
          out |-> Raise("ValueError", "illegal value in %d-th argument", 0 - info)]
    ELSE [ok |-> TRUE, trace |-> t, out |-> NoOut]

svd(t, a1, info) ==
    IF ndim(a1) # 2
    THEN [ok |-> FALSE, trace |-> Append(t, ValidateEv("a", FALSE)),
          out |-> Raise("ValueError", "expected matrix", 0)]
    ELSE decomp_status(t \o <<ValidateEv("a", FALSE),
                              KernelEv("gesdd", <<a1>>, <<FALSE>>, info, NoArr, <<>>)>>,
                       "gesdd", info)

eigh(t, a1, lower, info) ==
    IF ndim(a1) # 2 \/ a1.shape[1] # a1.shape[2]
    THEN [ok |-> FALSE, trace |-> Append(t, ValidateEv("a", FALSE)),
          out |-> Raise("ValueError", "expected square matrix", 0)]
    ELSE decomp_status(t \o <<ValidateEv("a", FALSE),
                              KernelEv("heevr", <<a1>>, <<FALSE>>, info, NoArr,
                                       <<lower>>)>>,
                       "heevr", info)

pinv2_rank(s, cond) == Cardinality(above_cutoff(s, cond))

pinv2_call(a, cond, rcond, return_rank, check_finite, t, s, info) ==
    LET va == asarray_validated(a, check_finite)
        t1 == <<ValidateEv("a", check_finite)>>
    IN IF ~va.ok THEN [trace |-> t1, out |-> va.err]
       ELSE LET d == svd(t1, va.arr, info)
            IN IF ~d.ok THEN [trace |-> d.trace, out |-> d.out]
               ELSE [trace |-> d.trace,
                     out |-> [NoOut EXCEPT
                                !.kind = "return",
                                !.x = PinvOut("pinv2", va.arr),
                                !.s = s,
                                !.rank = IF return_rank
                                         THEN pinv2_rank(s, cutoff(cond, rcond, t))
                                         ELSE 0 - 1]]

pinvh_rank(s, cond) == Cardinality(above_cutoff(s, cond))

pinvh_call(a, cond, rcond, lower, return_rank, check_finite, t, s, info) ==
    LET va == asarray_validated(a, check_finite)
        t1 == <<ValidateEv("a", check_finite)>>
    IN IF ~va.ok THEN [trace |-> t1, out |-> va.err]
       ELSE LET d == eigh(t1, va.arr, lower, info)
            IN IF ~d.ok THEN [trace |-> d.trace, out |-> d.out]
               ELSE [trace |-> d.trace,
                     out |-> [NoOut EXCEPT
                                !.kind = "return",
                                !.x = PinvOut("pinvh", va.arr),
                                !.s = s,
                                !.rank = IF return_rank
                                         THEN pinvh_rank(s, cutoff(cond, rcond, t))
                                         ELSE 0 - 1]]

\* Magnitudes a spectrum may hold relative to its largest entry 1: just
\* above and at each default cutoff, and far below.
Mags == {F(1, 0), F(125, 0 - 20), F(126, 0 - 20), F(15625, 0 - 46),
         F(15626, 0 - 46), F(1, 0 - 60)}

\* Spectra of k values: the largest first, one more value repeated.
Spectra(k) == {[i \in 1..k |-> IF i = 1 THEN F(1, 0) ELSE v] : v \in Mags}

Conds == {CondNone, F(0 - 1, 0), F(1, 0 - 1)}

pinv2 ==
    /\ pc = "idle"
    /\ \E ak \in Kinds, ash \in MatShapes, an \in BOOLEAN, cond \in Conds,
          rcond \in {CondNone, F(1, 0 - 30)}, return_rank \in BOOLEAN,
          check_finite \in BOOLEAN :
        LET a == CallerArr("a", ak, ash, an)
            r0 == pinv2_call(a, cond, rcond, return_rank, check_finite, "d",
                             <<F(1, 0)>>, 0)
        IN \E info \in Infos(r0) :
           \E t \in (IF ReachesKernel(r0) /\ info = 0 THEN {"f", "d"} ELSE {"d"}) :
           \E s \in (IF ReachesKernel(r0) /\ info = 0
                     THEN Spectra(MinDim(ash)) ELSE {<<F(1, 0)>>}) :
             Finish("pinv2",
                    [FlagArgs EXCEPT !.a = a, !.cond = cond, !.rcond = rcond,
                                     !.return_rank = return_rank,
                                     !.check_finite = check_finite,
                                     !.t = t],
                    pinv2_call(a, cond, rcond, return_rank, check_finite, t, s, info))

pinvh ==
    /\ pc = "idle"
    /\ \E ak \in Kinds, ash \in MatShapes, an \in BOOLEAN, cond \in Conds,
          rcond \in {CondNone, F(1, 0 - 30)}, lower \in BOOLEAN,
          return_rank \in BOOLEAN, check_finite \in BOOLEAN :
        LET a == CallerArr("a", ak, ash, an)
            r0 == pinvh_call(a, cond, rcond, lower, return_rank, check_finite, "d",
                             <<F(1, 0)>>, 0)
        IN \E info \in Infos(r0) :
           \E t \in (IF ReachesKernel(r0) /\ info = 0 THEN {"f", "d"} ELSE {"d"}) :
           \E s \in (IF ReachesKernel(r0) /\ info = 0
                     THEN Spectra(MinDim(ash)) ELSE {<<F(1, 0)>>}) :
           \E neg \in (IF ReachesKernel(r0) /\ info = 0 THEN BOOLEAN ELSE {FALSE}) :
             Finish("pinvh",
                    [FlagArgs EXCEPT !.a = a, !.cond = cond, !.rcond = rcond,
                                     !.lower = lower,
                                     !.return_rank = return_rank,
                                     !.check_finite = check_finite,
                                     !.t = t],
                    pinvh_call(a, cond, rcond, lower, return_rank, check_finite, t,
                               IF neg THEN [i \in 1..Len(s) |-> FNeg(s[i])] ELSE s,
                               info))

Init ==
    /\ pc = "idle"
    /\ op = "none"
    /\ args = FlagArgs
    /\ trace = <<>>
    /\ out = NoOut

Next ==
    \/ solve
    \/ solve_triangular
    \/ solve_banded
    \/ solveh_banded
    \/ solve_toeplitz
    \/ inv
    \/ det
    \/ lstsq
    \/ pinv
    \/ pinv2
    \/ pinvh

Spec == Init /\ [][Next]_vars
(***************************************************************************)
(* Properties.                                                             *)
(***************************************************************************)
Done == pc = "done"
KernelIdx == {i \in 1..Len(trace) : trace[i].ev = "kernel"}
InvokedIdx == {i \in 1..Len(trace) : Invoked(trace[i])}
\* The caller's overwrite flag for the argument named name.
Flag(name) ==
    IF name = "a" THEN args.overwrite_a
    ELSE IF name = "b" THEN args.overwrite_b ELSE FALSE
\* No finite check can reject the arguments.
PassFinite(checked) == \A x \in checked : isfinite(x)
Min(x, y) == IF x < y THEN x ELSE y

\* C1: for each of the drivers gelsd, gelsy and gelss, a lstsq call on a
\* 2-D a and a b with as many rows, in which no kernel reports a non-zero
\* status, returns the tuple (x, residuals, rank, singular values).
C1_EveryDriverReturns ==
    (/\ Done /\ op = "lstsq"
     /\ args.driver \in {"gelsd", "gelsy", "gelss"}
     /\ ndim(args.a) = 2 /\ args.a.shape[1] = args.b.shape[1]
     /\ (args.check_finite => PassFinite({args.a, args.b}))
     /\ \A i \in KernelIdx : trace[i].info = 0)
    => /\ out.kind = "return"
       /\ out.x.kind = "ndarray"
       /\ out.resids.kind = "ndarray"
       /\ out.rank >= 0
       /\ Len(out.s) = Min(args.a.shape[1], args.a.shape[2])

OverwriteOps == {"solve", "solve_triangular", "solve_banded", "solveh_banded",
                 "inv", "det", "lstsq"}

\* C2: in every operation with overwrite flags, a buffer handed to a kernel
\* with overwrite permission lies in a caller's memory only if the caller
\* set the flag of that argument, and when the flag of the argument it
\* comes from is not set it is a fresh ndarray.
C2_OverwriteOnlyDonated ==
    (Done /\ op \in OverwriteOps) =>
    \A i \in KernelIdx : \A k \in 1..Len(trace[i].args) :
        LET g == trace[i].args[k]
        IN trace[i].perms[k] =>
             /\ g.mem \in {"a", "b"} => Flag(g.mem)
             /\ (g.from \in {"a", "b"} /\ ~Flag(g.from)) =>
                    (g.mem = "fresh" /\ g.kind = "ndarray")
StatusOps == {"solve", "solve_triangular", "solve_banded", "inv"}

\* What the status e.info of kernel call e must lead to.
StatusOutcome(e) ==
    /\ e.info > 0 => (out.kind = "LinAlgError" /\ out.x = NoArr)
    /\ e.info < 0 => (out.kind = "ValueError" /\ out.num = 0 - e.info
                      /\ out.x = NoArr)

\* C3, as claimed: in solve, solve_triangular, solve_banded and inv every
\* kernel status > 0 ends the call with LinAlgError, every status < 0 with
\* a ValueError naming argument -status, and a call all of whose kernels
\* report 0 returns the last kernel's output.
C3_StatusDecidesOutcome_AnyKernel ==
    (Done /\ op \in StatusOps /\ KernelIdx # {}) =>
       /\ \A i \in KernelIdx : StatusOutcome(trace[i])
       /\ (\A i \in KernelIdx : trace[i].info = 0) =>
             (out.kind = "return" /\ out.x = trace[Len(trace)].ret)
       /\ out.kind \in {"return", "LinAlgError", "ValueError"}

\* C3, amended: the same for the solving, factorizing and inverting kernels
\* (gesv, posv, trtrs, gtsv, gbsv, getrf, getri); a non-zero status of inv's
\* workspace query, whatever its sign, ends the call with a ValueError that
\* reports the status itself, and no result.
C3_StatusDecidesOutcome ==
    (Done /\ op \in StatusOps /\ KernelIdx # {}) =>
       /\ \A i \in KernelIdx :
            IF trace[i].name = "getri_lwork"
            THEN trace[i].info # 0 =>
                   (out.kind = "ValueError" /\ out.num = trace[i].info
                    /\ out.x = NoArr)
            ELSE StatusOutcome(trace[i])
       /\ (\A i \in KernelIdx : trace[i].info = 0) =>
             (out.kind = "return" /\ out.x = trace[Len(trace)].ret)
       /\ out.kind \in {"return", "LinAlgError", "ValueError"}

\* Witness of C3: inv's inversion kernel reports a singular matrix.
C3_Witness ==
    /\ Done /\ op = "inv" /\ out.kind = "LinAlgError"
    /\ \E i \in KernelIdx : trace[i].name = "getri" /\ trace[i].info > 0

\* C4: a solve call invokes at most one kernel, exactly one once its shape
\* checks pass: posv on the declared triangle when sym_pos, gesv otherwise;
\* a positive posv status ends the call with LinAlgError with no gesv call.
C4_OneFactorization ==
    (Done /\ op = "solve") =>
       /\ Cardinality(KernelIdx) <= 1
       /\ (out.kind \in {"return", "LinAlgError"}) => Cardinality(KernelIdx) = 1
       /\ \A i \in KernelIdx :
            /\ trace[i].name = (IF args.sym_pos THEN "posv" ELSE "gesv")
            /\ args.sym_pos => trace[i].aux = <<args.lower>>
            /\ i = Len(trace)
            /\ (args.sym_pos /\ trace[i].info > 0) => out.kind = "LinAlgError"

\* Witness of C4: a Cholesky solve that fails as not positive definite.
C4_Witness ==
    /\ Done /\ op = "solve" /\ args.sym_pos /\ out.kind = "LinAlgError"
    /\ \E i \in KernelIdx : trace[i].name = "posv" /\ trace[i].info > 0

\* The shape precondition of the call is violated.
ShapeViolated ==
    LET a == args.a
        b == args.b
        notSquare == ndim(a) # 2 \/ a.shape[1] # a.shape[2]
    IN CASE op \in {"solve", "solve_triangular"} ->
              notSquare \/ a.shape[1] # b.shape[1]
         [] op \in {"inv", "det"} -> notSquare
         [] op = "solve_banded" ->
              args.l + args.u + 1 # a.shape[1] \/ a.shape[2] # b.shape[1]
         [] op = "solveh_banded" -> a.shape[2] # b.shape[1]
         [] op = "lstsq" ->
              \/ ndim(a) # 2
              \/ a.shape[1] # b.shape[1]
              \/ args.driver \notin {"gelsd", "gelsy", "gelss"}
         [] OTHER -> FALSE

\* C5: whenever a shape precondition is violated the call ends with a
\* ValueError, and no kernel was invoked.
C5_ShapeErrorBeforeKernel ==
    (Done /\ ShapeViolated) => (out.kind = "ValueError" /\ InvokedIdx = {})
\* The lstsq kernel call proper (not its workspace query), if it was made.
LstsqCalls ==
    {i \in KernelIdx : trace[i].name \in {"gelsd", "gelsy", "gelss"}
                       /\ trace[i].aux # <<0 - 1>>}

RECURSIVE ExcessEnergy(_, _, _, _)
\* |rows[k][j]|^2 summed over k = from..to.
ExcessEnergy(rows, j, from, to) ==
    IF from > to THEN 0
    ELSE rows[to][j].re * rows[to][j].re + rows[to][j].im * rows[to][j].im
         + ExcessEnergy(rows, j, from, to - 1)

\* C6: when lstsq's kernel reports status 0 for an m x n matrix the call
\* returns, and its residuals are non-empty exactly when n < m and the
\* kernel's rank is n; then the residual of each right-hand-side column is
\* the sum of |.|^2 over rows n..m-1 of that column of the kernel's output.
C6_Residuals ==
    (Done /\ op = "lstsq") =>
    \A i \in LstsqCalls :
       trace[i].info = 0 =>
         LET m == args.a.shape[1]
             n == args.a.shape[2]
             raw == trace[i].ret
             rank == trace[i].aux[1]
         IN /\ out.kind = "return"
            /\ size(out.resids) > 0 <=> (n < m /\ rank = n)
            /\ size(out.resids) > 0 =>
                 /\ Len(out.resids.data) = ncols(args.b)
                 /\ \A j \in 1..ncols(args.b) :
                      out.resids.data[j][1] =
                        Cx(ExcessEnergy(raw.data, j, n + 1, m), 0)
            /\ size(out.resids) = 0 => out.resids.shape = <<0>>

\* Witness of C6: an overdetermined full-rank system with two right-hand
\* sides and its residuals.
C6_Witness ==
    /\ Done /\ op = "lstsq" /\ out.kind = "return"
    /\ args.a.shape[2] < args.a.shape[1] /\ out.rank = args.a.shape[2]
    /\ ncols(args.b) > 1 /\ size(out.resids) = ncols(args.b)
    /\ out.resids.data[1][1].re > 0

\* C7: every right-hand side lstsq hands to its kernel has n rows, b's m
\* rows followed by zero rows, when n > m, and is b unpadded when n <= m;
\* a returned x has n rows, for n < m the first n rows of the kernel's
\* output and else the whole of it.
C7_Padding ==
    (Done /\ op = "lstsq") =>
    LET m == args.a.shape[1]
        n == args.a.shape[2]
    IN /\ \A i \in KernelIdx :
            LET rhs == trace[i].args[2]
            IN IF n > m
               THEN /\ rhs.shape[1] = n /\ Len(rhs.data) = n
                    /\ Len(rhs.shape) = Len(args.b.shape)
                    /\ \A k \in 1..m : rhs.data[k] = args.b.data[k]
                    /\ \A k \in (m + 1)..n : \A j \in 1..Len(rhs.data[k]) :
                         rhs.data[k][j] = Zero
                    /\ Len(rhs.data[n]) = Len(args.b.data[1])
               ELSE rhs.shape = args.b.shape /\ rhs.data = args.b.data
       /\ out.kind = "return" =>
            /\ out.x.shape[1] = n /\ Len(out.x.data) = n
            /\ \E i \in LstsqCalls :
                 \A k \in 1..n : out.x.data[k] = trace[i].ret.data[k]

\* Witness of C7: an underdetermined system solved on a padded b.
C7_Witness ==
    /\ Done /\ op = "lstsq" /\ out.kind = "return"
    /\ args.a.shape[2] > args.a.shape[1]
    /\ \E i \in LstsqCalls : trace[i].args[2].shape[1] > args.b.shape[1]

\* The entries of row i of the caller's ab, columns lo..hi, each mapped by f.
RealPart(e) == [e EXCEPT !.im = 0]
Conjugate(e) == [e EXCEPT !.im = 0 - e.im]
RowOf(ab, i, lo, hi, how) ==
    [k \in 1..(hi - lo + 1) |->
       <<IF how = "real" THEN RealPart(ab.data[i][lo + k - 1])
         ELSE IF how = "conj" THEN Conjugate(ab.data[i][lo + k - 1])
         ELSE ab.data[i][lo + k - 1]>>]

\* C8: solveh_banded calls ptsv exactly when ab has two rows, with d the
\* real part of row 0 (lower) or row 1 (upper) and e row 1 without its last
\* entry (lower) or the conjugate of row 0 without its first (upper), and
\* pbsv otherwise; status k > 0 is a LinAlgError reporting minor k, a
\* status < 0 a ValueError, and only status 0 returns the kernel's x.
C8_HermitianBanded ==
    (Done /\ op = "solveh_banded") =>
    /\ Cardinality(KernelIdx) <= 1
    /\ \A i \in KernelIdx :
         LET ev == trace[i]
             ab == args.a
             n == ab.shape[2]
         IN /\ ev.name = (IF ab.shape[1] = 2 THEN "ptsv" ELSE "pbsv")
            /\ ev.name = "ptsv" =>
                 /\ ev.args[1].data =
                      RowOf(ab, IF args.lower THEN 1 ELSE 2, 1, n, "real")
                 /\ ev.args[2].data =
                      (IF args.lower THEN RowOf(ab, 2, 1, n - 1, "same")
                       ELSE RowOf(ab, 1, 2, n, "conj"))
            /\ ev.info > 0 => (out.kind = "LinAlgError" /\ out.num = ev.info)
            /\ ev.info < 0 => out.kind = "ValueError"
            /\ out.kind = "return" <=> ev.info = 0
            /\ ev.info = 0 => out.x = ev.ret

\* Witness of C8: the upper-form tridiagonal path fails at leading minor 2.
C8_Witness ==
    /\ Done /\ op = "solveh_banded" /\ ~args.lower /\ args.a.shape[2] > 1
    /\ out.kind = "LinAlgError" /\ out.num = 2
    /\ \E i \in KernelIdx : trace[i].name = "ptsv"

\* The length of vals for the call's generator.
ValsLen ==
    (IF args.has_r THEN args.r.shape[1] ELSE args.a.shape[1]) - 1 + args.a.shape[1]

\* C9: in solve_toeplitz the recursion is handed vals = reverse(r[1:])
\* followed by c (r = conjugate(c) when omitted), so that with c and r of
\* length n entry (i, j) of the matrix is vals[n-1+i-j]; and for every
\* array-like b with len(vals) # 2*b.rows - 1 the call ends with a ValueError
\* before any recursion.
C9_ToeplitzGenerator ==
    (Done /\ op = "solve_toeplitz") =>
    LET c == args.a.data
        r == IF args.has_r THEN args.r.data
             ELSE [k \in 1..Len(c) |-> <<Conjugate(c[k][1])>>]
        n == Len(c)
    IN /\ \A i \in InvokedIdx :
            LET vals == trace[i].args[1].data
            IN /\ Len(vals) = Len(r) - 1 + n
               /\ Len(r) = n =>
                    \A p \in 0..(n - 1) : \A q \in 0..(n - 1) :
                       vals[n + p - q] = (IF p >= q THEN c[p - q + 1]
                                          ELSE r[q - p + 1])
       /\ (/\ args.b.kind \in Kinds
           /\ (args.check_finite =>
                 PassFinite({args.a} \cup (IF args.has_r THEN {args.r} ELSE {})))
           /\ ValsLen # 2 * args.b.shape[1] - 1)
          => (out.kind = "ValueError" /\ InvokedIdx = {})

\* The caller's array arguments of the call.
ArrayInputs ==
    CASE op = "solve_toeplitz" ->
            {"c", "b"} \cup (IF args.has_r THEN {"r"} ELSE {})
      [] op \in {"inv", "det", "pinv", "pinv2", "pinvh"} -> {"a"}
      [] OTHER -> {"a", "b"}

\* C10: with check_finite false no input of the call is finite-checked;
\* with check_finite true every array input has been finite-checked before
\* the first kernel call or recursion.
C10_CheckFinite ==
    Done =>
    /\ ~args.check_finite =>
         /\ \A i \in 1..Len(trace) : ~(trace[i].ev = "validate" /\ trace[i].check)
         /\ out.msg # "array must not contain infs or NaNs"
    /\ args.check_finite =>
         \A i \in InvokedIdx : \A name \in ArrayInputs :
            \E k \in 1..(i - 1) :
               trace[k].ev = "validate" /\ trace[k].name = name /\ trace[k].check

\* The default cutoff for a precision: 1e3 * eps (single), 1e6 * eps (double).
DefaultCutoff(t) == IF t = "f" THEN F(1000, 0 - 23) ELSE F(1000000, 0 - 52)

\* The largest magnitude of a spectrum.
MaxMag(s) ==
    CHOOSE x \in {FAbs(s[i]) : i \in 1..Len(s)} :
       \A i \in 1..Len(s) : ~FGt(FAbs(s[i]), x)

\* The number of magnitudes of s strictly above c * max.
RankAbove(s, c) ==
    Cardinality({i \in 1..Len(s) : FGt(FAbs(s[i]), FMul(c, MaxMag(s)))})

\* The caller gave no cutoff and asked for the rank of a finite matrix.
DefaultRankCall ==
    /\ Done /\ args.return_rank /\ args.cond.none /\ args.rcond.none
    /\ ndim(args.a) = 2 /\ (args.check_finite => PassFinite({args.a}))

\* C11, for pinv2 and pinvh: the rank returned under the default cutoff is
\* the number of singular values / absolute eigenvalues strictly above
\* DefaultCutoff(precision) * max.
C11_SvdEighPolicy ==
    (DefaultRankCall /\ op \in {"pinv2", "pinvh"} /\ out.kind = "return") =>
       out.rank = RankAbove(out.s, DefaultCutoff(args.t))

\* C11: pinv, pinv2 and pinvh apply one cutoff policy.  With no cutoff
\* given, pinv2 and pinvh return the rank counted above the default cutoff,
\* and pinv hands that default cutoff to its least-squares kernel and, on
\* status 0, returns a rank.
C11_SameCutoffPolicy ==
    /\ C11_SvdEighPolicy
    /\ (DefaultRankCall /\ op = "pinv") =>
          \E i \in LstsqCalls :
             /\ trace[i].aux[2] \in {DefaultCutoff("f"), DefaultCutoff("d")}
             /\ trace[i].info = 0 => (out.kind = "return" /\ out.rank = trace[i].aux[1])

\* Entry (i, j) of the identity matrix.
Delta(i, j) == IF i = j THEN Cx(1, 0) ELSE Cx(0, 0)

\* C12: pinv of a finite m x n matrix solves a least-squares problem whose
\* right-hand side is the m x m identity, and when the least-squares kernel
\* reports status 0 it returns the solution, n x m, alone or paired with the
\* kernel's rank as return_rank asks, without residuals or singular values.
C12_PinvViaLstsq ==
    (/\ Done /\ op = "pinv" /\ ndim(args.a) = 2
     /\ (args.check_finite => PassFinite({args.a})))
    => LET m == args.a.shape[1]
           n == args.a.shape[2]
       IN \E i \in LstsqCalls :
            /\ trace[i].args[1].data = args.a.data
            /\ \A p \in 1..m : \A q \in 1..m :
                 trace[i].args[2].data[p][q] = Delta(p, q)
            /\ trace[i].info = 0 =>
                 /\ out.kind = "return"
                 /\ out.x.shape = <<n, m>>
                 /\ \A k \in 1..n : out.x.data[k] = trace[i].ret.data[k]
                 /\ out.rank = (IF args.return_rank THEN trace[i].aux[1] ELSE 0 - 1)
                 /\ out.resids = NoArr /\ out.s = <<>>

\* C13: det on a finite square matrix invokes exactly one kernel, the
\* combined factor-and-determinant routine; every status >= 0, a positive
\* one included, returns the scalar that kernel reported, unchanged; a
\* status < 0 ends the call with a ValueError naming argument -status; det
\* never ends with LinAlgError.
C13_DetNeverSingular ==
    (Done /\ op = "det") =>
       /\ out.kind # "LinAlgError"
       /\ Cardinality(KernelIdx) <= 1
       /\ \A i \in KernelIdx : trace[i].name = "det" /\ i = Len(trace)
       /\ (/\ ndim(args.a) = 2 /\ args.a.shape[1] = args.a.shape[2]
           /\ (args.check_finite => PassFinite({args.a})))
          => /\ Cardinality(KernelIdx) = 1
             /\ \A i \in KernelIdx :
                  /\ trace[i].info >= 0 =>
                       (out.kind = "return" /\ out.x = trace[i].ret
                        /\ out.x.shape = <<>>)
                  /\ trace[i].info < 0 =>
                       (out.kind = "ValueError" /\ out.num = 0 - trace[i].info
                        /\ out.x = NoArr)

\* Witness of C13: the kernel reports a positive status and det returns the
\* kernel's scalar.
C13_Witness ==
    /\ Done /\ op = "det" /\ out.kind = "return"
    /\ \E i \in KernelIdx : trace[i].info > 0 /\ out.x = trace[i].ret

\* A solve_banded call whose arguments pass every check.
BandedValid ==
    /\ Done /\ op = "solve_banded"
    /\ (args.check_finite => PassFinite({args.a, args.b}))
    /\ args.a.shape[2] = args.b.shape[1]
    /\ args.l + args.u + 1 = args.a.shape[1]

\* C14: a solve_banded call with valid shapes invokes one kernel.  It is
\* gtsv exactly when l = u = 1, and gtsv is handed the sub-diagonal
\* ab[2,:-1], the main diagonal ab[1,:] and the super-diagonal ab[0,1:].
\* Otherwise it is gbsv, handed a freshly allocated array of 2l+u+1 rows
\* whose first l rows are zero and whose remaining rows are those of ab,
\* never the caller's ab buffer, whatever overwrite_ab is.
C14_BandedDispatch ==
    BandedValid =>
    LET ab == args.a
        n == ab.shape[2]
        l == args.l
        u == args.u
    IN /\ Cardinality(KernelIdx) = 1
       /\ \A i \in KernelIdx :
            LET ev == trace[i]
            IN /\ ev.name = "gtsv" <=> (l = 1 /\ u = 1)
               /\ ev.name \in {"gtsv", "gbsv"}
               /\ ev.name = "gtsv" =>
                    /\ ev.args[1].data = RowOf(ab, 3, 1, n - 1, "same")
                    /\ ev.args[2].data = RowOf(ab, 2, 1, n, "same")
                    /\ ev.args[3].data = RowOf(ab, 1, 2, n, "same")
               /\ ev.name = "gbsv" =>
                    LET a2 == ev.args[1]
                    IN /\ a2.shape = <<2 * l + u + 1, n>>
                       /\ Len(a2.data) = 2 * l + u + 1
                       /\ a2.mem = "fresh" /\ ~a2.view
                       /\ \A k \in 1..l : \A j \in 1..n : a2.data[k][j] = Zero
                       /\ \A k \in 1..(l + u + 1) : a2.data[l + k] = ab.data[k]
                       /\ \A k \in 1..Len(ev.args) : ev.args[k].mem # "a"

\* Witness of C14: banded LU with one sub-diagonal on an ndarray ab the
\* caller allowed to be overwritten.
C14_Witness ==
    /\ BandedValid /\ args.l = 1 /\ args.u = 0
    /\ args.a.kind = "ndarray" /\ args.overwrite_a
    /\ \E i \in KernelIdx : trace[i].name = "gbsv" /\ trace[i].args[1].mem = "fresh"

\* The trace positions of the kernel named name.
CallsOf(name) == {i \in KernelIdx : trace[i].name = name}

\* C15: after validating a, inv calls getrf, then getri_lwork, then getri:
\* the query and the inversion only if getrf reported 0, the inversion only
\* if the query reported 0; a non-zero query status ends the call with a
\* ValueError; and the workspace size handed to getri is floor(1.01 * q) for
\* the queried size q, which is at least q.
C15_InvOrderAndWorkspace ==
    (Done /\ op = "inv") =>
       /\ \E k \in 0..3 :
            /\ Cardinality(KernelIdx) = k
            /\ [j \in 1..k |-> trace[Len(trace) - k + j].name]
                  = SubSeq(<<"getrf", "getri_lwork", "getri">>, 1, k)
       /\ \A i \in CallsOf("getri_lwork") :
            /\ \E g \in CallsOf("getrf") : g < i /\ trace[g].info = 0
            /\ trace[i].info # 0 =>
                 (out.kind = "ValueError" /\ CallsOf("getri") = {})
       /\ \A i \in CallsOf("getri") :
            /\ \E g \in CallsOf("getrf") : g < i /\ trace[g].info = 0
            /\ \E k \in CallsOf("getri_lwork") :
                 LET q == trace[k].aux[2]
                     lwork == trace[i].aux[1]
                 IN /\ k < i /\ trace[k].info = 0
                    /\ 100 * lwork <= 101 * q /\ 101 * q < 100 * (lwork + 1)
                    /\ lwork >= q
       /\ \A g \in CallsOf("getrf") :
            trace[g].info # 0 => Cardinality(KernelIdx) = 1

\* Witness of C15: an inverse returned after a query whose size the 1%
\* margin has raised.
C15_Witness ==
    /\ Done /\ op = "inv" /\ out.kind = "return"
    /\ \E k \in CallsOf("getri_lwork") : \E i \in CallsOf("getri") :
         k < i /\ trace[i].aux[1] > trace[k].aux[2]

\* C16: a solve_toeplitz call given the pair (c, r) reaches the recursion
\* only with len(c) = len(r) = the number of rows of b, and a pair of
\* finite sequences of different lengths, with an ndarray b, ends the call
\* with the ValueError 'incompatible dimensions'.
C16_ToeplitzPairLengths ==
    (Done /\ op = "solve_toeplitz" /\ args.has_r) =>
       /\ InvokedIdx # {} =>
            /\ args.a.shape[1] = args.b.shape[1]
            /\ args.r.shape[1] = args.b.shape[1]
       /\ (/\ args.a.shape[1] # args.r.shape[1]
           /\ args.b.kind = "ndarray"
           /\ (args.check_finite => PassFinite({args.a, args.r})))
          => (out.kind = "ValueError" /\ out.msg = "incompatible dimensions"
              /\ InvokedIdx = {})

\* C16 for generators of one length: the recursion is reached only when
\* that length is the number of rows of b.
C16_EqualLengths ==
    (/\ Done /\ op = "solve_toeplitz"
     /\ (args.has_r => args.a.shape[1] = args.r.shape[1])
     /\ InvokedIdx # {})
    => args.a.shape[1] = args.b.shape[1]
====
